---- MODULE Spec2Model ----
(***************************************************************************)
(* A model of packing.py: the archive-format registry, the dispatch of     *)
(* make_archive on the archive name's extension, the tarball and zip       *)
(* builders and the compressors, over an explicit file system.             *)
(*                                                                         *)
(* Strings that the code inspects character by character (archive names,   *)
(* extensions, paths) are sequences of one-character strings, so that      *)
(* str.endswith, os.path.dirname, os.path.basename and os.path.join are    *)
(* computed and not assumed.  A file-system key is the sequence of the     *)
(* components of a path relative to the working directory.                 *)
(***************************************************************************)
EXTENDS Naturals, Sequences, FiniteSets, TLC

VARIABLES registry, fs, last, scen, builds

vars == <<registry, fs, last, scen, builds>>

(* ------------------------------------------------------------------ *)
(* Bounds                                                             *)
(* ------------------------------------------------------------------ *)

\* How many builder runs (calls that may write to the file system) one
\* behaviour holds.
MaxBuilds == 1

\* How many format names one get_archive_extensions call is given.
MaxNames == 2

(* ------------------------------------------------------------------ *)
(* Strings                                                            *)
(* ------------------------------------------------------------------ *)

Empty == << >>

Slash == "/"

\* str.endswith
EndsWith(s, suf) ==
    /\ Len(suf) <= Len(s)
    /\ SubSeq(s, Len(s) - Len(suf) + 1, Len(s)) = suf

\* str.rfind('/') + 1
RFindSlash(s) ==
    LET at == {i \in 1..Len(s) : s[i] = Slash}
    IN  IF at = {} THEN 0 ELSE CHOOSE i \in at : \A j \in at : j <= i

AllSlashes(s) == \A i \in 1..Len(s) : s[i] = Slash

RECURSIVE RStripSlash(_)
RStripSlash(s) ==
    IF s # Empty /\ s[Len(s)] = Slash THEN RStripSlash(SubSeq(s, 1, Len(s) - 1))
    ELSE s

\* os.path.dirname (posixpath)
Dirname(p) ==
    LET head == SubSeq(p, 1, RFindSlash(p))
    IN  IF head # Empty /\ ~AllSlashes(head) THEN RStripSlash(head) ELSE head

\* os.path.basename (posixpath)
Basename(p) == SubSeq(p, RFindSlash(p) + 1, Len(p))

\* os.path.join (posixpath), two arguments
Join(a, b) ==
    IF b # Empty /\ b[1] = Slash THEN b
    ELSE IF a = Empty \/ a[Len(a)] = Slash THEN a \o b
    ELSE a \o <<Slash>> \o b

\* The components of a relative path: what the kernel walks when it resolves
\* it (empty components and "." are dropped).
RECURSIVE Components(_)
Components(p) ==
    IF p = Empty THEN << >>
    ELSE LET cut  == {i \in 1..Len(p) : p[i] = Slash}
             stop == IF cut = {} THEN Len(p) + 1
                     ELSE CHOOSE i \in cut : \A j \in cut : i <= j
             head == SubSeq(p, 1, stop - 1)
             rest == Components(SubSeq(p, stop + 1, Len(p)))
         IN  IF head = Empty \/ head = <<".">> THEN rest ELSE <<head>> \o rest

\* The path string of a key.
RECURSIVE PathOf(_)
PathOf(k) ==
    IF k = << >> THEN Empty
    ELSE IF Len(k) = 1 THEN k[1]
    ELSE k[1] \o <<Slash>> \o PathOf(Tail(k))

IsPrefix(k, l) == Len(k) <= Len(l) /\ SubSeq(l, 1, Len(k)) = k

\* os.path.relpath(path, start) for a path below start, on keys.
Relpath(k, start) == PathOf(SubSeq(k, Len(start) + 1, Len(k)))

(* ------------------------------------------------------------------ *)
(* The file system                                                    *)
(* ------------------------------------------------------------------ *)

\* What a regular file holds: plain bytes (enc "raw"), or an archive (enc
\* "tar" or "zip") with its set of members; z lists the compression layers
\* applied to it, innermost first.
NoData == [enc |-> "none", bytes |-> "", members |-> {}, z |-> << >>]
Raw(b) == [enc |-> "raw", bytes |-> b, members |-> {}, z |-> << >>]
Archive(e, ms) == [enc |-> e, bytes |-> "", members |-> ms, z |-> << >>]
Compressed(d, how) == [d EXCEPT !.z = Append(d.z, how)]

\* A file being written, before it is closed.
Partial == Raw("partial")

\* A node: a directory, a regular file with its data, a symbolic link with
\* the key it points to (never itself a link), or a fifo (a non-regular
\* file).
Dir == [kind |-> "dir", data |-> NoData, to |-> << >>]
File(d) == [kind |-> "file", data |-> d, to |-> << >>]
Link(k) == [kind |-> "link", data |-> NoData, to |-> k]
Fifo == [kind |-> "fifo", data |-> NoData, to |-> << >>]
NoNode == [kind |-> "none", data |-> NoData, to |-> << >>]

Raw0(f, k) ==
    IF k = << >> THEN Dir
    ELSE IF k \in DOMAIN f THEN f[k]
    ELSE NoNode

\* The key a path resolves to, every symbolic link on the way followed
\* (the last component too).
RECURSIVE Real(_, _)
Real(f, k) ==
    IF k = << >> THEN << >>
    ELSE LET here == Append(Real(f, SubSeq(k, 1, Len(k) - 1)), k[Len(k)])
             n    == Raw0(f, here)
         IN  IF n.kind = "link" THEN n.to ELSE here

\* The key of the last component itself, the links before it followed.
LKey(f, k) ==
    IF k = << >> THEN << >>
    ELSE Append(Real(f, SubSeq(k, 1, Len(k) - 1)), k[Len(k)])

\* os.lstat: the node itself; the working directory is the empty key.
Lstat(f, k) == Raw0(f, LKey(f, k))

\* os.stat: a symbolic link is followed.
Stat(f, k) == Raw0(f, Real(f, k))

\* os.path.exists, os.path.isdir, os.path.isfile, os.path.islink
Exists(f, p) == p # Empty /\ Stat(f, Components(p)).kind # "none"
IsDir(f, p) == p # Empty /\ Stat(f, Components(p)).kind = "dir"
IsFile(f, p) == p # Empty /\ Stat(f, Components(p)).kind = "file"
IsLink(f, p) == p # Empty /\ Lstat(f, Components(p)).kind = "link"

\* os.listdir: the names in the directory a key resolves to.
Listdir(f, k) ==
    LET r == Real(f, k)
    IN  {l[Len(l)] : l \in {m \in DOMAIN f : Len(m) = Len(r) + 1 /\ IsPrefix(r, m)}}

Put(f, k, n) == [m \in DOMAIN f \cup {k} |-> IF m = k THEN n ELSE f[m]]

Remove(f, k) == [m \in DOMAIN f \ {k} |-> f[m]]

\* os.makedirs(p), called for a path that does not exist: every missing
\* directory of the path is created; the empty path, and a path through
\* something that is not a directory, raise OSError.
Makedirs(f, p) ==
    LET k    == Real(f, Components(p))
        pre  == {SubSeq(k, 1, i) : i \in 1..Len(k)}
        bad  == \E q \in pre : Lstat(f, q).kind # "none" /\ Stat(f, q).kind # "dir"
    IN  IF p = Empty \/ bad THEN [ok |-> FALSE, fs |-> f]
        ELSE [ok |-> TRUE,
              fs |-> [m \in DOMAIN f \cup pre |-> IF m \in DOMAIN f THEN f[m] ELSE Dir]]

\* open(p, 'wb') succeeds: the parent is a directory and p is no directory.
CanCreate(f, p) ==
    LET k == Components(p)
    IN  /\ k # << >>
        /\ Stat(f, SubSeq(k, 1, Len(k) - 1)).kind = "dir"
        /\ Stat(f, k).kind \in {"none", "file"}

\* shutil.move(src, dst) of a regular file: into dst when dst is a
\* directory (an error when the name is taken there), else a rename onto
\* dst (an error when dst cannot be written).
Move(f, src, dst) ==
    LET sk   == Real(f, Components(src))
        real == IF IsDir(f, dst) THEN Join(dst, Basename(src)) ELSE dst
        rk   == LKey(f, Components(real))
    IN  IF (IsDir(f, dst) /\ Exists(f, real)) \/ ~CanCreate(f, real)
        THEN [ok |-> FALSE, fs |-> f]
        ELSE [ok |-> TRUE, fs |-> Put(Remove(f, sk), rk, f[sk])]

(* ------------------------------------------------------------------ *)
(* External tools and compressors                                     *)
(* ------------------------------------------------------------------ *)

\* The outcome of a call: the file system it leaves, the exception it raised
\* ("none" when it returned) and where, the value returned ("True", "False",
\* "None"), the external program it ran, whether an archive stream was
\* written and closed, and whether the compressor's intermediate file
\* <input><suffix> was there after the program ran.
Returned(f, r, prog, wrote) ==
    [fs |-> f, exc |-> "none", at |-> "", ret |-> r, prog |-> prog, wrote |-> wrote,
     zfile |-> "n/a"]

Raised(f, e, where, prog, wrote) ==
    [fs |-> f, exc |-> e, at |-> where, ret |-> "raised", prog |-> prog, wrote |-> wrote,
     zfile |-> "n/a"]

Bool(b) == IF b THEN "True" ELSE "False"

\* The environment of a call: the programs find_executable and the shell can
\* find, and whether a program that is found does its work.
Env(inst, works) == [inst |-> inst, works |-> works]

DotGz == <<".", "g", "z">>
DotBz2 == <<".", "b", "z", "2">>
DotLzo == <<".", "l", "z", "o">>

\* _call_external(prog, '--force', input_name) for a compressor: when the
\* program is found and works on a regular file, input_name is replaced by
\* input_name + suffix; otherwise nothing changes, and nothing is raised.
CallExternal(f, env, prog, input_name, suffix, how) ==
    LET ik == Real(f, Components(input_name))
        zk == LKey(f, Components(input_name \o suffix))
    IN  IF prog \in env.inst /\ env.works /\ IsFile(f, input_name)
           /\ CanCreate(f, input_name \o suffix)
        THEN Put(Remove(f, ik), zk, File(Compressed(f[ik].data, how)))
        ELSE f

\* The tail shared by _do_gzip, _do_bzip2 and _do_lzop.
AfterMove(mv, f, name, prog, wrote) ==
    IF mv.ok THEN Returned(mv.fs, Bool(Exists(mv.fs, name)), prog, wrote)
    ELSE Raised(f, "IOError", "shutil.move", prog, wrote)

FinishCompress(f, output_name, zfile_name, prog) ==
    IF Exists(f, zfile_name)
    THEN [AfterMove(Move(f, zfile_name, output_name), f, output_name, prog, FALSE)
             EXCEPT !.zfile = "appeared"]
    ELSE [Returned(f, Bool(Exists(f, output_name)), prog, FALSE) EXCEPT !.zfile = "absent"]

\* The program _do_gzip and _do_bzip2 pick.
GzipProg(env) ==
    IF "pgzip" \in env.inst THEN "pgzip"
    ELSE IF "pigz" \in env.inst THEN "pigz"
    ELSE "gzip"

Bzip2Prog(env) == IF "pbzip2" \in env.inst THEN "pbzip2" ELSE "bzip2"

\* One compressor: the program is run, then the intermediate file moved.
Compressor(f, env, prog, output_name, input_name, suffix, how) ==
    FinishCompress(CallExternal(f, env, prog, input_name, suffix, how),
                   output_name, input_name \o suffix, prog)

DoGzip(f, env, output_name, input_name) ==
    Compressor(f, env, GzipProg(env), output_name, input_name, DotGz, "gz")

DoBzip2(f, env, output_name, input_name) ==
    Compressor(f, env, Bzip2Prog(env), output_name, input_name, DotBz2, "bz2")

DoLzop(f, env, output_name, input_name) ==
    Compressor(f, env, "lzop", output_name, input_name, DotLzo, "lzo")

DoCompress(f, env, output_name, input_name, format) ==
    IF format = "gz" THEN DoGzip(f, env, output_name, input_name)
    ELSE IF format = "bz2" THEN DoBzip2(f, env, output_name, input_name)
    ELSE IF format = "lzo" THEN DoLzop(f, env, output_name, input_name)
    ELSE Raised(f, "ValueError", "_do_compress", "", FALSE)

(* ------------------------------------------------------------------ *)
(* The builders                                                       *)
(* ------------------------------------------------------------------ *)

\* A member of an archive.
Member(name, n) == [name |-> name, kind |-> n.kind, data |-> n.data, to |-> n.to]

\* tarfile.add(name, arcname): the node itself (a link is not followed), a
\* directory with everything below it; the tar file being written is
\* skipped.
RECURSIVE TarAdd(_, _, _, _)
TarAdd(f, name, arcname, self) ==
    LET k == LKey(f, Components(name))
        n == Raw0(f, k)
    IN  IF k = self THEN {}
        ELSE IF n.kind = "dir"
        THEN {Member(arcname, n)}
             \cup UNION {TarAdd(f, Join(name, c), Join(arcname, c), self) : c \in Listdir(f, k)}
        ELSE {Member(arcname, n)}

\* The name tempfile.mktemp(suffix='.tar', dir=archive_dir) returns: a name
\* nothing else in the directory has.
TmpTar == <<"$", ".", "t", "a", "r">>

Compressions == {"None", "gz", "bz2", "lzo"}

\* if not os.path.exists(archive_dir): os.makedirs(archive_dir)
EnsureDir(f, archive_dir) ==
    IF Exists(f, archive_dir) THEN [ok |-> TRUE, fs |-> f] ELSE Makedirs(f, archive_dir)

\* Variant: the whole target path as the member name.
SingleArcname_whole(target_name) == target_name

\* The member name of a target that is a single file.
SingleArcname(target_name) == Basename(target_name)

\* The members _make_tarball adds to the tar file at key tk.
TarMembers(f, target_name, tk) ==
    IF IsDir(f, target_name)
    THEN UNION {TarAdd(f, Join(target_name, child), child, tk) :
                    child \in Listdir(f, Components(target_name))}
    ELSE TarAdd(f, target_name, SingleArcname(target_name), tk)

\* _make_tarball from tar.close() on: f holds the closed tar file.
AfterCompress(c, archive_name) ==
    IF c.exc # "none" THEN [c EXCEPT !.wrote = TRUE]
    ELSE [Returned(c.fs, Bool(Exists(c.fs, archive_name)), c.prog, TRUE)
             EXCEPT !.zfile = c.zfile]

TarFinish(f, env, archive_name, tarball_name, compress) ==
    IF compress = "None"
    THEN AfterMove(Move(f, tarball_name, archive_name), f, archive_name, "", TRUE)
    ELSE AfterCompress(DoCompress(f, env, archive_name, tarball_name, compress),
                       archive_name)

\* _make_tarball from tarfile.open on: f holds the archive's directory.
\* _make_tarball from tarfile.open on: opened holds the tar file, at key
\* tk, just opened.
TarFill(opened, env, archive_name, target_name, tarball_name, tk, compress) ==
    IF ~IsDir(opened, target_name) /\ Lstat(opened, Components(target_name)).kind = "none"
    THEN Raised(opened, "OSError", "tar.add", "", FALSE)
    ELSE TarFinish(Put(opened, tk, File(Archive("tar", TarMembers(opened, target_name, tk)))),
                   env, archive_name, tarball_name, compress)

\* _make_tarball past the check of compress: md is what ensuring the
\* archive's directory gave.
TarWrite(md, env, archive_name, target_name, tarball_name, compress) ==
    IF ~md.ok THEN Raised(md.fs, "OSError", "os.makedirs", "", FALSE)
    ELSE IF ~CanCreate(md.fs, tarball_name)
    THEN Raised(md.fs, "IOError", "tarfile.open", "", FALSE)
    ELSE TarFill(Put(md.fs, LKey(md.fs, Components(tarball_name)), File(Partial)),
                 env, archive_name, target_name, tarball_name,
                 LKey(md.fs, Components(tarball_name)), compress)

MakeTarball(f, env, archive_name, target_name, compress) ==
    IF compress \notin Compressions
    THEN Raised(f, "ValueError", "_make_tarball", "", FALSE)
    ELSE TarWrite(EnsureDir(f, Dirname(archive_name)), env, archive_name, target_name,
                  Join(Dirname(archive_name), TmpTar), compress)

\* os.walk(top) with the default followlinks=False: the paths
\* os.path.join(dirpath, filename) of every name that is no directory, in top
\* and in every directory below it that is not a symbolic link.
RECURSIVE Walk(_, _)
Walk(f, top) ==
    LET names == Listdir(f, Components(top))
        dirs  == {n \in names : IsDir(f, Join(top, n))}
    IN  {Join(top, n) : n \in names \ dirs}
        \cup UNION {Walk(f, Join(top, n)) : n \in {d \in dirs : ~IsLink(f, Join(top, d))}}

\* os.path.normpath of a relative path without "..".
Normpath(p) == PathOf(Components(p))

\* Variant: the walk without the os.path.isfile test.
ZipMembers_unfiltered(f, target_name) ==
    IF IsDir(f, target_name)
    THEN {Member(Relpath(Components(filepath), Components(target_name)),
                 Stat(f, Components(filepath))) :
             filepath \in {Normpath(w) : w \in Walk(f, target_name)}}
    ELSE {Member(SingleArcname(target_name), Stat(f, Components(target_name)))}

\* The members _make_zipfile writes; f holds the zip file just opened.
ZipMembers(f, target_name) ==
    IF IsDir(f, target_name)
    THEN LET found == {Normpath(w) : w \in Walk(f, target_name)}
         IN  {Member(Relpath(Components(filepath), Components(target_name)),
                     Stat(f, Components(filepath))) :
                 filepath \in {x \in found : IsFile(f, x)}}
    ELSE {Member(SingleArcname(target_name), Stat(f, Components(target_name)))}

\* _make_zipfile from zipfile.ZipFile(...) on: f holds the archive's
\* directory.
ZipClosed(done, archive_name) == Returned(done, Bool(Exists(done, archive_name)), "", TRUE)

\* _make_zipfile from the walk on: opened holds the zip file, at key ak,
\* just opened.
ZipFill(opened, archive_name, target_name, ak) ==
    IF ~IsDir(opened, target_name) /\ ~Exists(opened, target_name)
    THEN Raised(opened, "OSError", "arv.write", "", FALSE)
    ELSE ZipClosed(Put(opened, ak, File(Archive("zip", ZipMembers(opened, target_name)))),
                   archive_name)

\* _make_zipfile from zipfile.ZipFile(...) on: md is what ensuring the
\* archive's directory gave.
ZipWrite(md, archive_name, target_name) ==
    IF ~md.ok THEN Raised(md.fs, "OSError", "os.makedirs", "", FALSE)
    ELSE IF ~CanCreate(md.fs, archive_name)
    THEN Raised(md.fs, "IOError", "zipfile.ZipFile", "", FALSE)
    ELSE ZipFill(Put(md.fs, LKey(md.fs, Components(archive_name)), File(Partial)),
                 archive_name, target_name, LKey(md.fs, Components(archive_name)))

MakeZipfile(f, archive_name, target_name) ==
    ZipWrite(EnsureDir(f, Dirname(archive_name)), archive_name, target_name)

(* ------------------------------------------------------------------ *)
(* The registry                                                       *)
(* ------------------------------------------------------------------ *)

DotZip == <<".", "z", "i", "p">>
DotTar == <<".", "t", "a", "r">>
DotTzo == <<".", "t", "z", "o">>
DotTarLzo == DotTar \o DotLzo
DotTgz == <<".", "t", "g", "z">>
DotTaz == <<".", "t", "a", "z">>
DotTarGz == DotTar \o DotGz
DotTbz == <<".", "t", "b", "z">>
DotTbz2 == <<".", "t", "b", "z", "2">>
DotTarBz == DotTar \o <<".", "b", "z">>
DotTarBz2 == DotTar \o DotBz2

\* A value passed as 'function': callable or not; a built-in builder with
\* the compression partial() binds, or a caller's function.
Builder(id, compress) == [callable |-> TRUE, id |-> id, compress |-> compress]
Fn(id) == [callable |-> TRUE, id |-> id, compress |-> ""]
NotCallable == [callable |-> FALSE, id |-> "object", compress |-> ""]

\* A value passed as 'extensions': a list or tuple of strings, or something
\* else (a string, None).
List(items) == [seq |-> TRUE, items |-> items]
NotSeq == [seq |-> FALSE, items |-> << >>]

Entry(function, extensions) == [function |-> function, extensions |-> extensions]

\* Variant: '.tgz' in the place of '.tzo' in the lzotar entry.
ARCHIVE_FORMATS_typo ==
    [n \in {"zip", "tar", "lzotar", "gztar", "bztar"} |->
        CASE n = "zip"    -> Entry(Builder("_make_zipfile", ""), List(<<DotZip>>))
          [] n = "tar"    -> Entry(Builder("_make_tarball", "None"), List(<<DotTar>>))
          [] n = "lzotar" -> Entry(Builder("_make_tarball", "lzo"), List(<<DotTgz, DotTarLzo>>))
          [] n = "gztar"  -> Entry(Builder("_make_tarball", "gz"),
                                   List(<<DotTgz, DotTaz, DotTarGz>>))
          [] n = "bztar"  -> Entry(Builder("_make_tarball", "bz2"),
                                   List(<<DotTbz, DotTbz2, DotTarBz, DotTarBz2>>))]

\* _ARCHIVE_FORMATS as the module sets it.
ARCHIVE_FORMATS ==
    [n \in {"zip", "tar", "lzotar", "gztar", "bztar"} |->
        CASE n = "zip"    -> Entry(Builder("_make_zipfile", ""), List(<<DotZip>>))
          [] n = "tar"    -> Entry(Builder("_make_tarball", "None"), List(<<DotTar>>))
          [] n = "lzotar" -> Entry(Builder("_make_tarball", "lzo"), List(<<DotTzo, DotTarLzo>>))
          [] n = "gztar"  -> Entry(Builder("_make_tarball", "gz"),
                                   List(<<DotTgz, DotTaz, DotTarGz>>))
          [] n = "bztar"  -> Entry(Builder("_make_tarball", "bz2"),
                                   List(<<DotTbz, DotTbz2, DotTarBz, DotTarBz2>>))]

Range(q) == {q[i] : i \in 1..Len(q)}

\* filter(archive_name.endswith, registry[1]) is not empty.
Matches(entry, archive_name) ==
    \E e \in Range(entry.extensions.items) : EndsWith(archive_name, e)

\* The formats the scan of make_archive can stop at: a dict is iterated in an
\* arbitrary order, so the first match is any of the matching formats.
Matching(reg, archive_name) == {n \in DOMAIN reg : Matches(reg[n], archive_name)}

\* The format names in sorted order (list.sort on the (name, extensions)
\* tuples compares the names, which are distinct).
NameOrder == <<"bztar", "custom", "gztar", "lzotar", "tar", "zip">>

RECURSIVE Select(_, _)
Select(q, S) ==
    IF q = << >> THEN << >>
    ELSE IF q[1] \in S THEN <<q[1]>> \o Select(Tail(q), S)
    ELSE Select(Tail(q), S)

\* get_archive_formats(): the sorted list of (name, extensions).
GetArchiveFormats(reg) ==
    LET names == Select(NameOrder, DOMAIN reg)
    IN  [i \in 1..Len(names) |-> <<names[i], reg[names[i]].extensions>>]

\* The orders _ARCHIVE_FORMATS.keys() is taken to come in: the rotations of
\* the sorted order and of its reverse.
Reverse(q) == [i \in 1..Len(q) |-> q[Len(q) + 1 - i]]
Rotations(q) == {SubSeq(q, i, Len(q)) \o SubSeq(q, 1, i - 1) : i \in 1..Len(q)}
KeyOrders(reg) ==
    LET names == Select(NameOrder, DOMAIN reg)
    IN  IF names = << >> THEN {<< >>} ELSE Rotations(names) \cup Rotations(Reverse(names))

\* Variant: the loop ends at the first name that is not registered.
RECURSIVE ExtendAll_stop(_, _)
ExtendAll_stop(reg, formats) ==
    IF formats = << >> \/ formats[1] \notin DOMAIN reg THEN << >>
    ELSE reg[formats[1]].extensions.items \o ExtendAll_stop(reg, Tail(formats))

\* The loop of get_archive_extensions over the given format names.
RECURSIVE ExtendAll(_, _)
ExtendAll(reg, formats) ==
    IF formats = << >> THEN << >>
    ELSE (IF formats[1] \in DOMAIN reg THEN reg[formats[1]].extensions.items ELSE << >>)
         \o ExtendAll(reg, Tail(formats))

\* get_archive_extensions(*formats), keys being the order of the dict's keys.
GetArchiveExtensions(reg, formats, keys) ==
    ExtendAll(reg, IF Len(formats) = 0 THEN keys ELSE formats)

\* Variant: the entry is stored before the extensions are checked.
RegisterArchiveFormat_partial(reg, name, function, extensions) ==
    IF ~function.callable THEN [reg |-> reg, exc |-> "TypeError"]
    ELSE [reg |-> [n \in DOMAIN reg \cup {name} |->
                      IF n = name THEN Entry(function, extensions) ELSE reg[n]],
          exc |-> IF extensions.seq THEN "none" ELSE "TypeError"]

\* register_archive_format: the registry after the call and what it raised.
RegisterArchiveFormat(reg, name, function, extensions) ==
    IF ~function.callable THEN [reg |-> reg, exc |-> "TypeError"]
    ELSE IF ~extensions.seq THEN [reg |-> reg, exc |-> "TypeError"]
    ELSE [reg |-> [n \in DOMAIN reg \cup {name} |->
                      IF n = name THEN Entry(function, extensions) ELSE reg[n]],
          exc |-> "none"]

\* Variant: a registered name is left in place.
UnregisterArchiveFormat_keep(reg, name) ==
    IF name \notin DOMAIN reg THEN [reg |-> reg, exc |-> "KeyError"]
    ELSE [reg |-> reg, exc |-> "none"]

\* unregister_archive_format: del raises KeyError for a missing name.
UnregisterArchiveFormat(reg, name) ==
    IF name \notin DOMAIN reg THEN [reg |-> reg, exc |-> "KeyError"]
    ELSE [reg |-> [n \in DOMAIN reg \ {name} |-> reg[n]], exc |-> "none"]

\* archive_runner(archive_name, target_name): a built-in builder, or a
\* caller's function, which returns result and leaves the file system alone.
RunBuilder(function, f, env, archive_name, target_name, result) ==
    IF function.id = "_make_zipfile" THEN MakeZipfile(f, archive_name, target_name)
    ELSE IF function.id = "_make_tarball"
    THEN MakeTarball(f, env, archive_name, target_name, function.compress)
    ELSE Returned(f, result, "", FALSE)

\* One call of a builder, as make_archive makes it.
Invocation(function, archive_name, target_name, r) ==
    [fn |-> function.id, compress |-> function.compress, archive |-> archive_name,
     target |-> target_name, result |-> r.ret]

Ran(function, archive_name, target_name, r) ==
    [out |-> r, invoked |-> <<Invocation(function, archive_name, target_name, r)>>]

\* Variant: the target is looked for only after the builder has run.
MakeArchiveCall_late(reg, f, env, archive_name, target_name, format, result) ==
    IF format = ""
    THEN [out |-> Raised(f, "ValueError", "make_archive", "", FALSE), invoked |-> << >>]
    ELSE IF ~Exists(f, target_name)
    THEN [out |-> Raised(RunBuilder(reg[format].function, f, env, archive_name,
                                    target_name, result).fs,
                         "OSError", "make_archive", "", FALSE),
          invoked |-> <<Invocation(reg[format].function, archive_name, target_name,
                                   Raised(f, "OSError", "make_archive", "", FALSE))>>]
    ELSE Ran(reg[format].function, archive_name, target_name,
             RunBuilder(reg[format].function, f, env, archive_name, target_name, result))

\* make_archive(archive_name, target_name), format being where the scan
\* stopped ("" when nothing matched).
MakeArchiveCall(reg, f, env, archive_name, target_name, format, result) ==
    IF format = ""
    THEN [out |-> Raised(f, "ValueError", "make_archive", "", FALSE), invoked |-> << >>]
    ELSE IF ~Exists(f, target_name)
    THEN [out |-> Raised(f, "OSError", "make_archive", "", FALSE), invoked |-> << >>]
    ELSE Ran(reg[format].function, archive_name, target_name,
             RunBuilder(reg[format].function, f, env, archive_name, target_name, result))

(* ------------------------------------------------------------------ *)
(* Inputs                                                             *)
(* ------------------------------------------------------------------ *)

DotXyz == <<".", "x", "y", "z">>
DotRar == <<".", "r", "a", "r">>

\* Paths, relative to the working directory.
PathS == <<"s">>
PathSA == <<"s", "/", "a">>
PathSD == <<"s", "/", "d">>
PathF == <<"f">>
PathX == <<"x">>
PathNoSuch == <<"n", "o">>
StemBare == <<"o">>
StemX == <<"x", "/", "o">>
StemNested == <<"n", "/", "m", "/", "o">>
StemInS == <<"s", "/", "o">>
StemUnderF == <<"f", "/", "o">>

\* s/ holds a and d/b; f is a file; x/ is an empty directory.
FsPlain ==
    LET keys == {<<PathS>>, <<PathS, <<"a">>>>, <<PathS, <<"d">>>>,
                 <<PathS, <<"d">>, <<"b">>>>, <<PathF>>, <<PathX>>}
    IN  [k \in keys |->
            CASE k = <<PathS, <<"a">>>>          -> File(Raw("A"))
              [] k = <<PathS, <<"d">>, <<"b">>>> -> File(Raw("B"))
              [] k = <<PathF>>                   -> File(Raw("F"))
              [] OTHER                           -> Dir]

\* FsPlain with, in s/: l -> s/a (a file), m -> s/d (a directory), g -> a
\* name that does not exist, the fifo p and the empty directory e.
FsLinks ==
    LET more == {<<PathS, <<"l">>>>, <<PathS, <<"m">>>>, <<PathS, <<"g">>>>,
                 <<PathS, <<"p">>>>, <<PathS, <<"e">>>>}
    IN  [k \in DOMAIN FsPlain \cup more |->
            CASE k = <<PathS, <<"l">>>> -> Link(<<PathS, <<"a">>>>)
              [] k = <<PathS, <<"m">>>> -> Link(<<PathS, <<"d">>>>)
              [] k = <<PathS, <<"g">>>> -> Link(<<PathS, <<"gone">>>>)
              [] k = <<PathS, <<"p">>>> -> Fifo
              [] k = <<PathS, <<"e">>>> -> Dir
              [] OTHER                  -> FsPlain[k]]

\* FsPlain with files left by earlier runs at x/o.tar.gz and x/o.zip.
FsStale ==
    LET more == {<<PathX, <<"o">> \o DotTarGz>>, <<PathX, <<"o">> \o DotZip>>}
    IN  [k \in DOMAIN FsPlain \cup more |->
            IF k \in more THEN File(Raw("stale")) ELSE FsPlain[k]]

Std == {"gzip", "bzip2", "lzop"}
EnvStd == Env(Std, TRUE)
Envs == {Env({}, TRUE), EnvStd, Env(Std \cup {"pigz", "pbzip2"}, TRUE), Env(Std, FALSE)}

Results == {"True", "False"}

\* Registry calls.
RegNames == {"custom", "zip"}
Functions == {Fn("fn1"), Fn("fn2"), NotCallable}
ExtArgs == {List(<<DotXyz>>), List(<<DotGz, DotXyz>>), NotSeq}
UnregNames == {"custom", "zip", "gztar", "nosuch"}
AskNames == {"zip", "custom", "gztar", "nosuch"}
NameSeqs == UNION {[1..n -> AskNames] : n \in 0..MaxNames}

\* make_archive calls of the registry specification.
RegPaths == {StemX \o DotXyz, StemX \o DotZip, StemX \o DotTarGz, StemX \o DotRar}
RegTargets == {PathS, PathNoSuch}

\* make_archive and builder calls of the builder specification.
BuildPaths ==
    {StemBare \o DotZip, StemBare \o DotTgz, StemX \o DotZip, StemX \o DotTar,
     StemX \o DotTarGz, StemX \o DotTbz2, StemX \o DotTzo, StemNested \o DotZip,
     StemNested \o DotTar, StemInS \o DotZip, StemInS \o DotTar, StemUnderF \o DotZip}
BuildTargets == {PathS, PathSA, PathF}
DirectPaths == {StemBare \o DotTar, StemX \o DotTar, StemNested \o DotTgz, StemX \o DotZip}
DirectTargets == {PathS, PathSD, PathSA}
DirectCompress == {"None", "gz", "xz"}
CompressOutputs == {StemX \o DotTarGz, StemX \o DotTar \o DotBz2, PathX, StemNested \o DotTgz}
CompressInputs == {PathF, PathSA, PathNoSuch}
CompressFormats == {"gz", "bz2", "lzo", "xz"}

\* Archive names for the dispatch specification: a stem, possibly a built-in
\* extension, and a piece, the pieces being the ends of the built-in
\* extensions.
Suffixes(e) == {SubSeq(e, i, Len(e)) : i \in 1..Len(e)}
BuiltinExtensions ==
    UNION {Range(ARCHIVE_FORMATS[n].extensions.items) : n \in DOMAIN ARCHIVE_FORMATS}
Pieces == UNION {Suffixes(e) : e \in BuiltinExtensions}
ProbePaths == {StemX \o a \o b : a \in BuiltinExtensions \cup {Empty}, b \in Pieces}

(* ------------------------------------------------------------------ *)
(* State and actions                                                  *)
(* ------------------------------------------------------------------ *)

\* The record of the last call: its arguments and its outcome.
NoCall ==
    [op |-> "none", name |-> "", function |-> Fn(""), extensions |-> List(<< >>),
     formats |-> << >>, archive |-> Empty, target |-> Empty,
     compress |-> "", exc |-> "none", at |-> "", ret |-> "None", list |-> << >>,
     prog |-> "", wrote |-> FALSE, zfile |-> "n/a", invoked |-> << >>]

WithOutcome(call, r) ==
    [call EXCEPT !.exc = r.exc, !.at = r.at, !.ret = r.ret, !.prog = r.prog,
                 !.wrote = r.wrote, !.zfile = r.zfile]

\* Where a behaviour stands in the sequence register, make_archive,
\* unregister, make_archive: phase 1 after register_archive_format(name,
\* fn, exts) returned; 2 after a make_archive(archive, target) that follows it
\* with an existing target and an archive name ending with one of exts and
\* with no extension of another registered format; 3 after an
\* unregister_archive_format(name) that follows that; 4 after the same
\* make_archive call again.  Any other call starts over.
NoScen == [phase |-> 0, name |-> "", fn |-> "", exts |-> << >>, archive |-> Empty,
           target |-> Empty]

InitCommon ==
    /\ registry = ARCHIVE_FORMATS
    /\ last = NoCall
    /\ scen = NoScen
    /\ builds = 0

Init == InitCommon /\ fs = FsPlain

InitBuild == InitCommon /\ fs \in {FsPlain, FsLinks, FsStale}

InitDispatch == InitCommon /\ fs = FsPlain

Register ==
    \E name \in RegNames, function \in Functions, extensions \in ExtArgs :
        LET r == RegisterArchiveFormat(registry, name, function, extensions)
        IN  /\ registry' = r.reg
            /\ last' = [NoCall EXCEPT !.op = "register_archive_format", !.name = name,
                                      !.function = function, !.extensions = extensions,
                                      !.exc = r.exc,
                                      !.at = IF r.exc = "none" THEN ""
                                             ELSE "register_archive_format",
                                      !.ret = IF r.exc = "none" THEN "None" ELSE "raised"]
            /\ scen' = IF r.exc = "none"
                       THEN [NoScen EXCEPT !.phase = 1, !.name = name, !.fn = function.id,
                                           !.exts = extensions.items]
                       ELSE NoScen
            /\ UNCHANGED <<fs, builds>>

Unregister ==
    \E name \in UnregNames :
        LET r == UnregisterArchiveFormat(registry, name)
        IN  /\ registry' = r.reg
            /\ last' = [NoCall EXCEPT !.op = "unregister_archive_format", !.name = name,
                                      !.exc = r.exc,
                                      !.at = IF r.exc = "none" THEN ""
                                             ELSE "unregister_archive_format",
                                      !.ret = IF r.exc = "none" THEN "None" ELSE "raised"]
            /\ scen' = IF r.exc = "none" /\ scen.phase = 2 /\ scen.name = name
                       THEN [scen EXCEPT !.phase = 3]
                       ELSE NoScen
            /\ UNCHANGED <<fs, builds>>

GetFormats ==
    /\ last' = [NoCall EXCEPT !.op = "get_archive_formats",
                              !.list = GetArchiveFormats(registry)]
    /\ scen' = NoScen
    /\ UNCHANGED <<registry, fs, builds>>

GetExtensions ==
    \E formats \in NameSeqs :
        \E keys \in IF formats = << >> THEN KeyOrders(registry) ELSE {<< >>} :
            /\ last' = [NoCall EXCEPT !.op = "get_archive_extensions", !.formats = formats,
                                      !.list = GetArchiveExtensions(registry, formats, keys)]
            /\ scen' = NoScen
            /\ UNCHANGED <<registry, fs, builds>>

BuiltIn(function) == function.id \in {"_make_zipfile", "_make_tarball"}

\* The step of the register / make_archive / unregister / make_archive
\* sequence a make_archive call makes.
ScenAfterMake(sc, reg, f, archive_name, target_name) ==
    IF /\ sc.phase = 1
       /\ Exists(f, target_name)
       /\ \E e \in Range(sc.exts) : EndsWith(archive_name, e)
       /\ \A n \in DOMAIN reg \ {sc.name} :
             \A e \in Range(reg[n].extensions.items) : ~EndsWith(archive_name, e)
    THEN [sc EXCEPT !.phase = 2, !.archive = archive_name, !.target = target_name]
    ELSE IF sc.phase = 3 /\ sc.archive = archive_name /\ sc.target = target_name
    THEN [sc EXCEPT !.phase = 4]
    ELSE NoScen

\* The step a make_archive call with outcome c makes; ran: it ran a built-in
\* builder.
MakeArchiveStep(c, ran, archive_name, target_name, format) ==
    /\ ran => builds < MaxBuilds
    /\ fs' = c.out.fs
    /\ builds' = IF ran THEN builds + 1 ELSE builds
    /\ last' = [WithOutcome([NoCall EXCEPT !.op = "make_archive", !.name = format,
                                           !.archive = archive_name,
                                           !.target = target_name], c.out)
                   EXCEPT !.invoked = c.invoked]
    /\ scen' = ScenAfterMake(scen, registry, fs, archive_name, target_name)
    /\ UNCHANGED registry

\* The formats the scan can stop at, "" standing for the loop's else branch.
Stops(reg, archive_name) ==
    IF Matching(reg, archive_name) = {} THEN {""} ELSE Matching(reg, archive_name)

\* The environments that tell calls of a builder apart: those given for a
\* tarball builder that compresses, one of them for any other builder.
EnvsFor(envs, compress) ==
    IF compress \in {"gz", "bz2", "lzo"} THEN envs ELSE {CHOOSE e \in envs : TRUE}

MakeArchive(paths, targets, envs, results) ==
    \E archive_name \in paths, target_name \in targets, result \in results :
        \E format \in Stops(registry, archive_name) :
          \E env \in EnvsFor(envs, IF format = "" THEN ""
                                   ELSE registry[format].function.compress) :
            MakeArchiveStep(MakeArchiveCall(registry, fs, env, archive_name, target_name,
                                            format, result),
                            /\ format # ""
                            /\ Exists(fs, target_name)
                            /\ BuiltIn(registry[format].function),
                            archive_name, target_name, format)

\* The step a direct call of a builder or of a compressor with outcome r
\* makes.
DirectStep(r, op, archive_name, target_name, compress) ==
    /\ builds < MaxBuilds
    /\ fs' = r.fs
    /\ builds' = builds + 1
    /\ last' = WithOutcome([NoCall EXCEPT !.op = op, !.archive = archive_name,
                                          !.target = target_name, !.compress = compress], r)
    /\ scen' = NoScen
    /\ UNCHANGED registry

\* _make_tarball called by itself.
MakeTarballDirect ==
    \E archive_name \in DirectPaths, target_name \in DirectTargets,
       compress \in DirectCompress :
      \E env \in EnvsFor(Envs, compress) :
        DirectStep(MakeTarball(fs, env, archive_name, target_name, compress),
                   "_make_tarball", archive_name, target_name, compress)

\* _make_zipfile called by itself.
MakeZipfileDirect ==
    \E archive_name \in DirectPaths, target_name \in DirectTargets :
        DirectStep(MakeZipfile(fs, archive_name, target_name),
                   "_make_zipfile", archive_name, target_name, "")

\* compressing(output_name, input_name, format), the public name of
\* _do_compress.
Compressing ==
    \E output_name \in CompressOutputs, input_name \in CompressInputs,
       format \in CompressFormats, env \in Envs :
        DirectStep(DoCompress(fs, env, output_name, input_name, format),
                   "_do_compress", output_name, input_name, format)

RegMakeArchive == MakeArchive(RegPaths, RegTargets, {EnvStd}, Results)

BuildMakeArchive == MakeArchive(BuildPaths, BuildTargets, Envs, {"None"})

ProbeMakeArchive == MakeArchive(ProbePaths, {PathNoSuch}, {EnvStd}, {"None"})

Next ==
    \/ Register
    \/ Unregister
    \/ GetFormats
    \/ GetExtensions
    \/ RegMakeArchive

NextBuild ==
    \/ BuildMakeArchive
    \/ MakeTarballDirect
    \/ MakeZipfileDirect
    \/ Compressing

NextDispatch == ProbeMakeArchive

\* The registry and the dispatch of make_archive.
Spec == Init /\ [][Next]_vars

\* The builders and the compressors on the file system.
SpecBuild == InitBuild /\ [][NextBuild]_vars

\* The scan of make_archive over the built-in formats.
SpecDispatch == InitDispatch /\ [][NextDispatch]_vars

(* ------------------------------------------------------------------ *)
(* Properties                                                         *)
(* ------------------------------------------------------------------ *)

\* archive_name ends with an extension of the entry.
EndsWithOneOf(archive_name, entry) ==
    \E i \in 1..Len(entry.extensions.items) : EndsWith(archive_name, entry.extensions.items[i])

\* The last call ran the zip builder, the tarball builder, either of them.
RanZip ==
    \/ last.op = "_make_zipfile"
    \/ last.op = "make_archive" /\ last.invoked # << >> /\ last.invoked[1].fn = "_make_zipfile"

RanTar ==
    \/ last.op = "_make_tarball"
    \/ last.op = "make_archive" /\ last.invoked # << >> /\ last.invoked[1].fn = "_make_tarball"

\* The compression the tarball builder was called with.
TarCompress ==
    IF last.op = "_make_tarball" THEN last.compress ELSE last.invoked[1].compress

\* The keys below a directory, and the key of the last call's target.
Below(f, tk) == {k \in DOMAIN f : Len(k) > Len(tk) /\ IsPrefix(tk, k)}

TargetKey == Real(fs, Components(last.target))

\* The data of the file at the last call's archive name.
ArchiveData == Stat(fs, Components(last.archive)).data

\* The last call left an archive it wrote at its archive name.
Produced ==
    /\ last.exc = "none"
    /\ last.wrote
    /\ last.zfile # "absent"
    /\ IsFile(fs, last.archive)
    /\ ArchiveData.enc \in {"tar", "zip"}

\* The directory part of a path: empty, a directory, or missing with
\* nothing but directories on the way to it.
DirPartUsable(f, p) ==
    LET k == Components(Dirname(p))
    IN  \A i \in 1..Len(k) : Stat(f, SubSeq(k, 1, i)).kind \in {"dir", "none"}

\* C1: after register_archive_format(name, fn, exts), make_archive(archive,
\* target) with an existing target and an archive name that ends with one of
\* exts and with no extension of another registered format calls fn exactly
\* once, with (archive, target), and returns what fn returned; after a
\* following unregister_archive_format(name) the same call raises the
\* ValueError of an unknown extension and calls nothing.
C1_RegisterDispatchUnregister ==
    /\ scen.phase = 2 =>
          /\ last.op = "make_archive"
          /\ last.exc = "none"
          /\ Len(last.invoked) = 1
          /\ last.invoked[1].fn = scen.fn
          /\ last.invoked[1].archive = scen.archive
          /\ last.invoked[1].target = scen.target
          /\ last.ret = last.invoked[1].result
    /\ scen.phase = 4 =>
          /\ last.op = "make_archive"
          /\ last.exc = "ValueError"
          /\ last.at = "make_archive"
          /\ last.invoked = << >>

\* C1 witness: the whole sequence has run, the format registered under a
\* built-in name or a new one.
C1_Witness == scen.phase = 4 /\ last.archive = StemX \o DotXyz /\ last.exc = "ValueError"

\* C2: a make_archive call whose archive name ends with no registered
\* extension raises ValueError, one whose target does not exist raises
\* OSError, and either is raised with no builder called, the file system as
\* it was and the registry as it was.
C2_ErrorsBeforeMutation ==
    [][last'.op = "make_archive" =>
          /\ (\A n \in DOMAIN registry : ~EndsWithOneOf(last'.archive, registry[n]))
                => (last'.exc = "ValueError" /\ last'.at = "make_archive")
          /\ ((\E n \in DOMAIN registry : EndsWithOneOf(last'.archive, registry[n]))
                /\ ~Exists(fs, last'.target))
                => (last'.exc = "OSError" /\ last'.at = "make_archive")
          /\ (last'.at = "make_archive" /\ last'.exc \in {"ValueError", "OSError"})
                => /\ last'.invoked = << >>
                   /\ ~last'.wrote
                   /\ fs' = fs
                   /\ registry' = registry]_vars

\* C2 witness: a missing target reported under a registry that register and
\* unregister calls have changed, a builder having run before.
C2_Witness ==
    /\ last.op = "make_archive"
    /\ last.exc = "OSError"
    /\ last.at = "make_archive"
    /\ "custom" \in DOMAIN registry
    /\ "gztar" \notin DOMAIN registry
    /\ builds > 0

\* C3: register_archive_format with a function that is not callable, or with
\* extensions that are no list or tuple, raises TypeError, and
\* unregister_archive_format of a name that is not registered raises; after
\* either the registry, and what get_archive_formats() returns, are as
\* before.
C3_FailedMutationKeepsRegistry ==
    [][/\ (last'.op = "register_archive_format"
             /\ (~last'.function.callable \/ ~last'.extensions.seq))
          => last'.exc = "TypeError"
       /\ (last'.op = "unregister_archive_format" /\ last'.name \notin DOMAIN registry)
          => last'.exc # "none"
       /\ (last'.op \in {"register_archive_format", "unregister_archive_format"}
             /\ last'.exc # "none")
          => /\ registry' = registry
             /\ GetArchiveFormats(registry') = GetArchiveFormats(registry)]_vars

\* C3 witness: a registration refused for its extensions alone, in a
\* registry that differs from the built-in one.
C3_Witness ==
    /\ last.op = "register_archive_format"
    /\ last.exc = "TypeError"
    /\ last.function.callable
    /\ ~last.extensions.seq
    /\ "custom" \in DOMAIN registry

\* The extension lists of the given names, those not registered left out,
\* one after the other.
ExpectedExtensions(reg, formats) ==
    LET part(i) == IF formats[i] \in DOMAIN reg THEN reg[formats[i]].extensions.items
                   ELSE << >>
        upto[i \in 0..Len(formats)] == IF i = 0 THEN << >> ELSE upto[i - 1] \o part(i)
    IN  upto[Len(formats)]

\* C4: get_archive_extensions() returns the extensions of all registered
\* formats; get_archive_extensions(n1, ..., nk) returns the extensions of
\* those of n1..nk that are registered, in the order of the arguments, names
\* that are not registered being skipped; the registry is not changed.
C4_GetExtensions ==
    [][last'.op = "get_archive_extensions" =>
          /\ last'.exc = "none"
          /\ registry' = registry
          /\ last'.formats = << >> =>
                Range(last'.list)
                  = UNION {Range(registry[n].extensions.items) : n \in DOMAIN registry}
          /\ last'.formats # << >> =>
                last'.list = ExpectedExtensions(registry, last'.formats)]_vars

\* C4 witness: a call naming a format that is not registered before one that
\* a caller registered.
C4_Witness ==
    /\ last.op = "get_archive_extensions"
    /\ last.formats = <<"nosuch", "custom">>
    /\ last.list # << >>

\* The files an archive unpacks to, and the regular files below a directory,
\* each as <<relative path, data>>.
Unpacked(d) == {<<m.name, m.data>> : m \in {x \in d.members : x.kind = "file"}}

RegularFiles(f, tk) ==
    {<<Relpath(k, tk), f[k].data>> : k \in {x \in Below(f, tk) : f[x].kind = "file"}}

\* C5: make_archive with a built-in format, an archive name with a matching
\* extension and an existing source directory produces an archive that
\* unpacks to exactly the regular files of the source, under their relative
\* paths and with their content (for the compressed tar formats, when the
\* compressor succeeds).  Stated for a source that holds only directories
\* and regular files, an archive name outside the source and a usable
\* directory part.
C5_RoundTrip ==
    (/\ last.op = "make_archive"
     /\ last.name \in DOMAIN ARCHIVE_FORMATS
     /\ IsDir(fs, last.target)
     /\ \A k \in Below(fs, TargetKey) : fs[k].kind \in {"dir", "file"}
     /\ ~IsPrefix(TargetKey, Components(last.archive))
     /\ DirPartUsable(fs, last.archive)
     /\ last.zfile # "absent")
    => /\ Produced
       /\ \A m \in ArchiveData.members : m.kind \in {"dir", "file"}
       /\ Unpacked(ArchiveData) = RegularFiles(fs, TargetKey)

\* C6: when the target of the tarball builder or of the zip builder is a
\* single existing file, the archive produced has exactly one member, named
\* by the last component of the target path.
C6_SingleFileMember ==
    ((RanZip \/ RanTar) /\ Produced /\ Exists(fs, last.target) /\ ~IsDir(fs, last.target))
    => /\ Cardinality(ArchiveData.members) = 1
       /\ \A m \in ArchiveData.members :
             /\ \A i \in 1..Len(m.name) : m.name[i] # Slash
             /\ \/ last.target = m.name
                \/ EndsWith(last.target, <<Slash>> \o m.name)

\* C6 witness: a file inside a directory archived by the tarball builder
\* with compression.
C6_Witness ==
    /\ RanTar
    /\ Produced
    /\ last.target = PathSA
    /\ ArchiveData.z # << >>
    /\ \E m \in ArchiveData.members : m.name = <<"a">>

\* C7: when the compressor's intermediate file never appears (the program is
\* missing or fails), the compressor, and the tarball builder called with
\* that compression, return false and raise nothing, whatever was at the
\* output path before.
C7_FailedCompressionReportsFalse ==
    last.zfile = "absent" => (last.exc = "none" /\ last.ret = "False")

\* The names of the entries below the target that os.stat shows as regular
\* files: regular files, and symbolic links to regular files.
StatFiles(f, tk) == {k \in Below(f, tk) : Stat(f, k).kind = "file"}

ZippedDirectory == RanZip /\ Produced /\ IsDir(fs, last.target) /\ ArchiveData.enc = "zip"

\* C8 as stated: every member of the zip of a directory is a regular file of
\* the subtree under its relative path, and no symbolic link, fifo or
\* directory of the subtree is a member.
C8_SymlinksSkipped ==
    ZippedDirectory =>
        /\ \A m \in ArchiveData.members :
              \E k \in Below(fs, TargetKey) :
                  Relpath(k, TargetKey) = m.name /\ fs[k].kind = "file"
        /\ \A k \in Below(fs, TargetKey) :
              fs[k].kind # "file" =>
                  \A m \in ArchiveData.members : m.name # Relpath(k, TargetKey)

\* C8 as amended: the members of the zip of a directory are the entries of
\* the subtree that are regular files or symbolic links to regular files,
\* each under its relative path and with the content of the file it resolves
\* to (the zip file itself, when it lies in the subtree, as it was while
\* being written); symbolic links to directories are not descended, and they,
\* dangling links, fifos and directories are no members.
C8_RegularAfterResolving ==
    ZippedDirectory =>
        /\ {m.name : m \in ArchiveData.members}
              = {Relpath(k, TargetKey) : k \in StatFiles(fs, TargetKey)}
        /\ \A m \in ArchiveData.members :
              /\ m.kind = "file"
              /\ \E k \in StatFiles(fs, TargetKey) :
                    /\ Relpath(k, TargetKey) = m.name
                    /\ m.data = IF k = Real(fs, Components(last.archive)) THEN Partial
                                ELSE Stat(fs, k).data

\* C8 witness: a directory holding links to a file, to a directory and to
\* nothing, and a fifo, zipped; the link to the file is a member.
C8_Witness ==
    /\ ZippedDirectory
    /\ \E k \in Below(fs, TargetKey) : fs[k].kind = "link" /\ Stat(fs, k).kind = "dir"
    /\ \E k \in Below(fs, TargetKey) : fs[k].kind = "link" /\ Stat(fs, k).kind = "none"
    /\ \E k \in Below(fs, TargetKey) : fs[k].kind = "fifo"
    /\ \E m \in ArchiveData.members : m.name = <<"l">>

\* C9: a builder called with a target that exists (and, for the tarball
\* builder, a compression it knows) ensures that the directory of the
\* archive exists and goes on to write the archive, whether the directory
\* part of the archive name is a directory, is missing or is empty.
C9_EnsuresDirectory ==
    (/\ RanZip \/ (RanTar /\ TarCompress \in Compressions)
     /\ Exists(fs, last.target)
     /\ DirPartUsable(fs, last.archive))
    => /\ last.wrote
       /\ ~(last.exc = "OSError" /\ last.at = "os.makedirs")
       /\ Dirname(last.archive) # Empty => IsDir(fs, Dirname(last.archive))

\* C10: while the registry holds the five built-in formats, no extension of
\* one is the end of an extension of another, so that an archive name ends
\* with the extensions of at most one format and the scan of make_archive
\* can stop at one format only.
C10_BuiltinDispatchDeterministic ==
    (last.op = "make_archive" /\ registry = ARCHIVE_FORMATS) =>
        /\ \A n1, n2 \in DOMAIN registry :
              n1 # n2 =>
                 \A e1 \in Range(registry[n1].extensions.items),
                    e2 \in Range(registry[n2].extensions.items) : ~EndsWith(e1, e2)
        /\ Cardinality({n \in DOMAIN registry : EndsWithOneOf(last.archive, registry[n])}) <= 1
        /\ last.name # "" => EndsWithOneOf(last.archive, registry[last.name])

\* C10 witness: an archive name that holds the extensions of two built-in
\* formats, dispatched on the one it ends with.
C10_Witness ==
    /\ last.op = "make_archive"
    /\ registry = ARCHIVE_FORMATS
    /\ last.archive = StemX \o DotZip \o DotTarBz2
    /\ last.name = "bztar"

====
